---- MODULE Spec2Model ----
(***************************************************************************)
(* ProofPath (src/src/blockchain/ProofPath.js): a 32-byte key with a       *)
(* logical bit length, as used for Merkle Patricia proof paths.            *)
(*                                                                         *)
(* Representation of JavaScript values:                                    *)
(*   - a Uint8Array is a function from 0..n-1 to 0..255;                   *)
(*   - a string of '0'/'1' characters is a sequence over {0, 1};           *)
(*   - a hexadecimal string is a sequence of digit values 0..15;           *)
(*   - an Array<number> (the serialization buffer) is a sequence;          *)
(*   - `undefined` and NaN are two integers outside every data range;      *)
(*   - a call returns [threw |-> FALSE, val |-> v] or                      *)
(*     [threw |-> TRUE, val |-> <error name>].                             *)
(***************************************************************************)
EXTENDS Integers, Sequences, FiniteSets, TLC

BIT_LENGTH == 256

BYTE_LENGTH == BIT_LENGTH \div 8

undefined == -1000001

NaN == -1000002

Return(v) == [threw |-> FALSE, val |-> v]

Throw(e) == [threw |-> TRUE, val |-> e]

(***************************************************************************)
(* Bounds of the inputs.                                                   *)
(***************************************************************************)
MaxStrLen == 2

RECURSIVE AllStrings(_)
AllStrings(n) ==
  IF n = 0 THEN {<<>>}
  ELSE LET shorter == AllStrings(n - 1)
       IN shorter \cup {Append(s, d) : s \in {t \in shorter : Len(t) = n - 1}, d \in {0, 1}}

Cycle(pat, n) == [i \in 1..n |-> pat[((i - 1) % Len(pat)) + 1]]

\* Two long strings: 130 ones, and a 256-character string that leaves the
\* first at character 9.
LongStrings == {Cycle(<<1>>, 130), Cycle(<<1, 1, 1, 1, 1, 1, 1, 1, 1, 0>>, BIT_LENGTH)}

BitStrings == AllStrings(MaxStrLen) \cup LongStrings

Filled(n, byte) == [i \in 0..(n - 1) |-> byte]

\* 32-byte buffers: one with every bit set, so that whatever lies past a
\* supplied length is visible, and one that shares its first byte only.
Buffers == {Filled(BYTE_LENGTH, 255), [i \in 0..(BYTE_LENGTH - 1) |-> 255 - i]}

\* Lengths passed to the constructor: below 0, inside the first and the
\* second byte, and above BIT_LENGTH.
ExplicitLengths == {-9, -1, 3, 12, 257}

\* Inputs the constructor must reject: a number, and buffers of 31 and 33 bytes.
BadInputs ==
  {[type |-> "number", value |-> <<>>],
   [type |-> "Uint8Array", value |-> Filled(BYTE_LENGTH - 1, 0)],
   [type |-> "Uint8Array", value |-> Filled(BYTE_LENGTH + 1, 0)]}

TruncateArgs == (-1 .. (MaxStrLen + 1)) \cup {-9, 9, 129, 257}

InitialBuffers == {<<>>, <<255, 0>>}

(***************************************************************************)
(* Collaborators of ../types/convert.                                      *)
(***************************************************************************)
\* Each group of 8 characters becomes one byte, character 8k+j being bit j
\* (the least significant first).
binaryStringToUint8Array(binaryStr) ==
  [k \in 0..((Len(binaryStr) \div 8) - 1) |->
     binaryStr[8 * k + 1] + 2 * binaryStr[8 * k + 2] + 4 * binaryStr[8 * k + 3]
     + 8 * binaryStr[8 * k + 4] + 16 * binaryStr[8 * k + 5] + 32 * binaryStr[8 * k + 6]
     + 64 * binaryStr[8 * k + 7] + 128 * binaryStr[8 * k + 8]]

\* Two hexadecimal digits per byte, the high one first.
uint8ArrayToHexadecimal(arr) ==
  [i \in 1..(2 * Cardinality(DOMAIN arr)) |->
     IF i % 2 = 1 THEN arr[(i - 1) \div 2] \div 16 ELSE arr[(i - 1) \div 2] % 16]

\* Each hexadecimal digit expanded to 4 characters, the most significant
\* bit first.
hexadecimalToBinaryString(str) ==
  [i \in 1..(4 * Len(str)) |->
     (str[((i - 1) \div 4) + 1] \div (2 ^ (3 - ((i - 1) % 4)))) % 2]

(***************************************************************************)
(* Helpers of ProofPath.js.                                                *)
(***************************************************************************)
\* buffer[byte] read as JavaScript reads it: undefined outside the array.
At(buffer, i) == IF i \in DOMAIN buffer THEN buffer[i] ELSE undefined

\* (buffer[byte] & (1 << bitPos)) >> bitPos; `undefined & mask` is 0.
\* Only called with pos >= 0.
getBit(buffer, pos) ==
  LET byte == pos \div 8
      bitPos == pos % 8
  IN IF byte \in DOMAIN buffer THEN (buffer[byte] \div (2 ^ bitPos)) % 2 ELSE 0

\* A write outside a typed array is ignored; every negative pos has a
\* negative byte index, so bitPos is only used for pos >= 0.
setBit(buffer, pos, b) ==
  LET byte == pos \div 8
      bitPos == pos % 8
  IN IF byte \notin DOMAIN buffer THEN buffer
     ELSE LET cur == (buffer[byte] \div (2 ^ bitPos)) % 2
          IN IF b = 0
             THEN [buffer EXCEPT ![byte] = @ - cur * (2 ^ bitPos)]
             ELSE [buffer EXCEPT ![byte] = @ + (1 - cur) * (2 ^ bitPos)]

ZEROS == [i \in 1..256 |-> 0]

\* String.prototype.substring(0, n): n below 0 counts as 0, n above the
\* length as the length.
Substring0(str, n) ==
  SubSeq(str, 1, IF n < 0 THEN 0 ELSE IF n > Len(str) THEN Len(str) ELSE n)

padWithZeros(str, desiredLength) == str \o Substring0(ZEROS, desiredLength - Len(str))

\* trimZeros cutting one character late.
trimZerosOneMore(str, desiredLength) ==
  IF Len(str) < desiredLength THEN Throw("Error")
  ELSE Return(Substring0(str, desiredLength + 1))

trimZeros(str, desiredLength) ==
  IF Len(str) < desiredLength THEN Throw("Error")
  ELSE Return(Substring0(str, desiredLength))

(***************************************************************************)
(* The class.                                                              *)
(***************************************************************************)
\* new ProofPath(bits, bitLength); bitLength = undefined is the omitted
\* argument, which takes the default.
ProofPath(bits, bitLength) ==
  IF bits.type = "string"
  THEN LET key == binaryStringToUint8Array(padWithZeros(bits.value, BIT_LENGTH))
       IN Return([key |-> key, bitLength |-> Len(bits.value),
                  hexKey |-> uint8ArrayToHexadecimal(key)])
  ELSE IF bits.type = "Uint8Array" /\ Cardinality(DOMAIN bits.value) = BIT_LENGTH \div 8
  THEN Return([key |-> bits.value,
               bitLength |-> IF bitLength = undefined THEN BIT_LENGTH ELSE bitLength,
               hexKey |-> uint8ArrayToHexadecimal(bits.value)])
  ELSE Throw("TypeError")

isTerminal(self) == self.bitLength = BIT_LENGTH

bit(self, pos) ==
  IF pos >= self.bitLength \/ pos < 0 THEN undefined ELSE getBit(self.key, pos)

Max(x, y) == IF x > y THEN x ELSE y

\* The first loop of commonPrefixLength, `for (pos = 0; cond; pos += 8) ;`:
\* the first of 0, 8, 16, ... at which the loop condition fails (it fails at
\* the latest once pos >= intersectingBits >> 3).
advanceBytes(self, other, intersectingBits, start) ==
  LET cond(pos) == /\ pos < intersectingBits \div 8
                   /\ At(self.key, pos \div 8) = At(other.key, pos \div 8)
      k == CHOOSE n \in 0..Max(0, intersectingBits \div 8) :
             ~cond(start + 8 * n) /\ \A j \in 0..(n - 1) : cond(start + 8 * j)
  IN start + 8 * k

\* The second loop of commonPrefixLength, `for (; cond; pos++) ;`: the first
\* position from start on at which the loop condition fails (it fails at the
\* latest at intersectingBits).
advanceBits(self, other, intersectingBits, start) ==
  LET cond(pos) == pos < intersectingBits /\ bit(self, pos) = bit(other, pos)
  IN CHOOSE pos \in start..Max(start, intersectingBits) :
       ~cond(pos) /\ \A q \in start..(pos - 1) : cond(q)

Min(x, y) == IF x < y THEN x ELSE y

commonPrefixLength(self, other) ==
  LET intersectingBits == Min(self.bitLength, other.bitLength)
  IN advanceBits(self, other, intersectingBits,
                 advanceBytes(self, other, intersectingBits, 0))

\* The second loop of truncate.
RECURSIVE copyBits(_, _, _, _)
copyBits(self, bytes, pos, bits) ==
  IF pos < bits
  THEN copyBits(self, setBit(bytes, pos, bit(self, pos)), pos + 1, bits)
  ELSE bytes

\* truncate refusing the current length as well.
truncateStrictlyShorter(self, bits) ==
  IF bits >= self.bitLength THEN Throw("TypeError")
  ELSE LET whole == [i \in 0..(BYTE_LENGTH - 1) |->
                       IF i < bits \div 8 THEN self.key[i] ELSE 0]
           bytes == copyBits(self, whole, 8 * (bits \div 8), bits)
       IN ProofPath([type |-> "Uint8Array", value |-> bytes], bits)

truncate(self, bits) ==
  IF bits > self.bitLength THEN Throw("TypeError")
  ELSE LET whole == [i \in 0..(BYTE_LENGTH - 1) |->
                       IF i < bits \div 8 THEN self.key[i] ELSE 0]
           bytes == copyBits(self, whole, 8 * (bits \div 8), bits)
       IN ProofPath([type |-> "Uint8Array", value |-> bytes], bits)

commonPrefix(self, other) == truncate(self, commonPrefixLength(self, other))

startsWith(self, other) == commonPrefixLength(self, other) = other.bitLength

Sign(x) == IF x > 0 THEN 1 ELSE IF x < 0 THEN -1 ELSE 0

\* x - y on results of bit(): NaN when either is undefined.
Minus(x, y) == IF x = undefined \/ y = undefined THEN NaN ELSE x - y

compare(self, other) ==
  LET thisLen == self.bitLength
      otherLen == other.bitLength
      intersectingBits == Min(thisLen, otherLen)
      pos == commonPrefixLength(self, other)
  IN IF pos = intersectingBits THEN Sign(thisLen - otherLen)
     ELSE Minus(bit(self, pos), bit(other, pos))

\* The copy loop of serialize.
RECURSIVE pushKey(_, _, _)
pushKey(self, buffer, pos) ==
  IF pos < (self.bitLength + 7) \div 8
  THEN pushKey(self, Append(buffer, At(self.key, pos)), pos + 1)
  ELSE buffer

\* The buffer after serialize(buffer). The second branch is only taken with
\* bitLength >= 128, where JavaScript's % and >> are % and \div.
serialize(self, buffer) ==
  LET withLength ==
        IF self.bitLength < 128 THEN Append(buffer, self.bitLength)
        ELSE Append(Append(buffer, 128 + (self.bitLength % 128)), self.bitLength \div 128)
  IN pushKey(self, withLength, 0)

toJSON(self) == trimZeros(hexadecimalToBinaryString(self.hexKey), self.bitLength)

(***************************************************************************)
(* A caller holding two paths, a and b. It makes one call at a time; ret   *)
(* is the outcome of the call it made and has not yet taken or dropped.    *)
(***************************************************************************)
VARIABLES a, b, ret

vars == <<a, b, ret>>

Called(op, arg, outcome) ==
  [op |-> op, arg |-> arg, threw |-> outcome.threw, val |-> outcome.val]

NoCall == Called("none", 0, Return(0))

Idle == ret.op = "none"

Init ==
  /\ a = ProofPath([type |-> "string", value |-> <<>>], undefined).val
  /\ b = ProofPath([type |-> "string", value |-> <<>>], undefined).val
  /\ ret = NoCall

NewFromString ==
  \E s \in BitStrings :
    /\ Idle
    /\ ret' = Called("new", [bits |-> s, bitLength |-> undefined],
                     ProofPath([type |-> "string", value |-> s], undefined))
    /\ UNCHANGED <<a, b>>

NewFromBuffer ==
  \E buf \in Buffers, len \in ExplicitLengths \cup {undefined} :
    /\ Idle
    /\ ret' = Called("newFromBuffer", [bits |-> buf, bitLength |-> len],
                     ProofPath([type |-> "Uint8Array", value |-> buf], len))
    /\ UNCHANGED <<a, b>>

NewFromBadInput ==
  \E x \in BadInputs, len \in {undefined, 3} :
    /\ Idle
    /\ ret' = Called("newFromBadInput", [bits |-> x, bitLength |-> len], ProofPath(x, len))
    /\ UNCHANGED <<a, b>>

Truncate ==
  \E n \in TruncateArgs :
    /\ Idle
    /\ ret' = Called("truncate", n, truncate(a, n))
    /\ UNCHANGED <<a, b>>

CommonPrefix ==
  /\ Idle
  /\ ret' = Called("commonPrefix", 0, commonPrefix(a, b))
  /\ UNCHANGED <<a, b>>

CommonPrefixLength ==
  /\ Idle
  /\ ret' = Called("commonPrefixLength", 0, Return(commonPrefixLength(a, b)))
  /\ UNCHANGED <<a, b>>

StartsWith ==
  /\ Idle
  /\ ret' = Called("startsWith", 0, Return(startsWith(a, b)))
  /\ UNCHANGED <<a, b>>

Compare ==
  /\ Idle
  /\ ret' = Called("compare", 0, Return(compare(a, b)))
  /\ UNCHANGED <<a, b>>

Serialize ==
  \E buffer \in InitialBuffers :
    /\ Idle
    /\ ret' = Called("serialize", buffer, Return(serialize(a, buffer)))
    /\ UNCHANGED <<a, b>>

ToJSON ==
  /\ Idle
  /\ ret' = Called("toJSON", 0, toJSON(a))
  /\ UNCHANGED <<a, b>>

ReturnedPath == ret.op \in {"new", "newFromBuffer", "newFromBadInput", "truncate", "commonPrefix"} /\ ~ret.threw

\* The caller keeps the instance the last call returned.
KeepAsA ==
  /\ ReturnedPath
  /\ a' = ret.val
  /\ ret' = NoCall
  /\ UNCHANGED b

KeepAsB ==
  /\ ReturnedPath
  /\ b' = ret.val
  /\ ret' = NoCall
  /\ UNCHANGED a

\* The caller drops the outcome of the last call.
Drop ==
  /\ ~Idle
  /\ ret' = NoCall
  /\ UNCHANGED <<a, b>>

Next ==
  \/ NewFromString
  \/ NewFromBuffer
  \/ NewFromBadInput
  \/ Truncate
  \/ CommonPrefix
  \/ CommonPrefixLength
  \/ StartsWith
  \/ Compare
  \/ Serialize
  \/ ToJSON
  \/ KeepAsA
  \/ KeepAsB
  \/ Drop

Spec == Init /\ [][Next]_vars

(***************************************************************************)
(* Properties.                                                             *)
(***************************************************************************)
\* The instances alive in a state: the caller's two paths and the one the
\* last call returned, if it returned one.
Instances == {a, b} \cup (IF ReturnedPath THEN {ret.val} ELSE {})

ValidLength(p) == 0 <= p.bitLength /\ p.bitLength <= BIT_LENGTH

ZeroPadded(p) ==
  \A i \in 0..(8 * Cardinality(DOMAIN p.key) - 1) : i >= p.bitLength => getBit(p.key, i) = 0

SameBits(p, q) ==
  /\ p.bitLength = q.bitLength
  /\ \A i \in 0..(p.bitLength - 1) : bit(p, i) = bit(q, i)

IsByte(x) == x \in 0..255

Ceil8(n) == -((-n) \div 8)

\* C1: every bit of key at an index >= bitLength is zero, in every instance
\* obtained from the constructor (either mode, with or without a length),
\* truncate or commonPrefix.
C1_ZeroPadding == \A p \in Instances : ZeroPadded(p)

\* C2: every instance obtained from the constructor, truncate(n) or
\* commonPrefix has 0 <= bitLength <= 256 and a key of exactly 32 bytes.
C2_LengthRange ==
  \A p \in Instances : ValidLength(p) /\ Cardinality(DOMAIN p.key) = BYTE_LENGTH

\* C3: construction throws when the input is neither a bit-string nor a
\* 32-byte buffer, and when a 32-byte buffer comes with an explicit length
\* above 256 or below 0.
C3_ConstructionFails ==
  /\ ret.op = "newFromBadInput" => ret.threw
  /\ (/\ ret.op = "newFromBuffer"
      /\ ret.arg.bitLength # undefined
      /\ (ret.arg.bitLength > BIT_LENGTH \/ ret.arg.bitLength < 0)) => ret.threw

\* C4: serialize leaves the bytes already in the buffer alone and appends
\* the length prefix (one byte bitLength below 128, else the two bytes
\* 128 + bitLength mod 128 and bitLength >> 7, the second 1 or 2) and then
\* exactly ceil(bitLength / 8) bytes, key[0 .. ceil(bitLength / 8) - 1].
C4_SerializeAppends ==
  ret.op = "serialize" =>
    LET before == ret.arg
        after == ret.val
        n == a.bitLength
        prefix == IF n < 128 THEN <<n>> ELSE <<128 + (n % 128), n \div 128>>
        payload == [i \in 1..Ceil8(n) |-> At(a.key, i - 1)]
    IN /\ Len(after) >= Len(before)
       /\ SubSeq(after, 1, Len(before)) = before
       /\ after = before \o prefix \o payload
       /\ \A i \in (Len(before) + 1)..Len(after) : IsByte(after[i])
       /\ n >= 128 => prefix[2] \in {1, 2}

\* C5: compare is a strict total order: its result is -1, 0 or 1,
\* compare(x, x) = 0, compare(x, y) = -compare(y, x), compare(x, y) = 0 only
\* for paths of the same length and bits, and it is transitive.
C5_CompareTotalOrder ==
  \A x \in Instances, y \in Instances :
    /\ compare(x, y) \in {-1, 0, 1}
    /\ compare(x, x) = 0
    /\ compare(x, y) = -compare(y, x)
    /\ compare(x, y) = 0 => SameBits(x, y)
    /\ \A z \in Instances :
         (compare(x, y) < 0 /\ compare(y, z) < 0) => compare(x, z) < 0

\* The first position below m where the bits of x and y differ, or m.
FirstDifference(x, y, m) ==
  LET diff == {i \in 0..(m - 1) : bit(x, i) # bit(y, i)}
  IN IF diff = {} THEN m ELSE CHOOSE i \in diff : \A j \in diff : i <= j

\* C6: commonPrefixLength (bytes first, then bits) returns what the scan bit
\* by bit from position 0 returns: the first position below
\* min(bitLength, other.bitLength) where the bits differ, or that minimum;
\* it is symmetric and never above that minimum.
C6_CommonPrefixLength ==
  \A x \in Instances, y \in Instances :
    LET m == Min(x.bitLength, y.bitLength)
    IN /\ commonPrefixLength(x, y) = advanceBits(x, y, m, 0)
       /\ commonPrefixLength(x, y) = FirstDifference(x, y, m)
       /\ commonPrefixLength(x, y) = commonPrefixLength(y, x)
       /\ commonPrefixLength(x, y) <= m

\* The path constructed from the string s.
FromString(s) == ProofPath([type |-> "string", value |-> s], undefined).val

Decode(bytes) ==
  IF Len(bytes) = 0 \/ \E i \in 1..Len(bytes) : ~IsByte(bytes[i])
  THEN [ok |-> FALSE]
  ELSE LET two == bytes[1] >= 128
           skip == IF two THEN 2 ELSE 1
       IN IF Len(bytes) < skip THEN [ok |-> FALSE]
          ELSE LET n == (bytes[1] % 128) + (IF two THEN 128 * bytes[2] ELSE 0)
               IN IF Len(bytes) # skip + Ceil8(n) \/ Ceil8(n) > BYTE_LENGTH
                  THEN [ok |-> FALSE]
                  ELSE [ok |-> TRUE,
                        bitLength |-> n,
                        key |-> [i \in 0..(BYTE_LENGTH - 1) |->
                                   IF i < Ceil8(n) THEN bytes[skip + i + 1] ELSE 0]]

\* C8: decoding what serialize appended gives back the bitLength and the
\* bits of the path; paths that differ in bitLength or in a bit below it
\* never serialize to the same bytes.
C8_SerializeRoundTrip ==
  /\ ret.op = "serialize" =>
       LET d == Decode(SubSeq(ret.val, Len(ret.arg) + 1, Len(ret.val)))
       IN d.ok /\ SameBits(d, a)
  /\ \A x \in Instances, y \in Instances :
       serialize(x, <<>>) = serialize(y, <<>>) => SameBits(x, y)

\* What C9 says of the outcome of self.truncate(n).
TruncateContract(self, n, outcome) ==
  /\ n > self.bitLength => outcome.threw
  /\ (0 <= n /\ n <= self.bitLength) =>
       /\ ~outcome.threw
       /\ outcome.val.bitLength = n
       /\ \A i \in 0..(n - 1) : bit(outcome.val, i) = bit(self, i)
       /\ truncate(outcome.val, n) = Return(outcome.val)

\* C9: truncate(n) throws when n > bitLength; for 0 <= n <= bitLength it
\* returns a path of length n with the first n bits of self, and truncating
\* that path to n again gives an equal path; self is left as it was.
C9_Truncate ==
  [][ret'.op = "truncate" => (a' = a /\ b' = b /\ TruncateContract(a', ret'.arg, ret'))]_vars

\* A truncation inside a byte, of a path with a bit set past the cut.
C9_Witness ==
  /\ ret.op = "truncate"
  /\ ~ret.threw
  /\ 0 < ret.arg
  /\ ret.arg < a.bitLength
  /\ ret.arg % 8 # 0
  /\ ret.arg < BIT_LENGTH
  /\ getBit(a.key, ret.arg) = 1

\* C10: c = a.commonPrefix(b) never throws, is a prefix of a and of b, has
\* length a.commonPrefixLength(b), cannot be extended by a bit a and b
\* share, and equals b.commonPrefix(a).
C10_CommonPrefix ==
  ret.op = "commonPrefix" =>
    /\ ~ret.threw
    /\ startsWith(a, ret.val)
    /\ startsWith(b, ret.val)
    /\ ret.val.bitLength = commonPrefixLength(a, b)
    /\ ~(/\ ret.val.bitLength < Min(a.bitLength, b.bitLength)
         /\ bit(a, ret.val.bitLength) = bit(b, ret.val.bitLength))
    /\ ~commonPrefix(b, a).threw
    /\ SameBits(commonPrefix(b, a).val, ret.val)

====
